---- MODULE Spec2Model ----
(***************************************************************************)
(* Model of scripts/eyecite_extract.py: one run of the process, from the   *)
(* import guard to the exit.  The collaborator library (clean_text,        *)
(* get_citations, resolve_citations and the citation objects they return)  *)
(* is the environment: what it returns or raises is chosen from bounded    *)
(* sets, what the script does with it is translated from the source.       *)
(***************************************************************************)
EXTENDS Integers, Sequences, FiniteSets, TLC

\* ---------------------------------------------------------------- bounds
MaxText == 3        \* longest stdin text
MaxCites == 2       \* longest list get_citations returns (core citations)
MaxResolved == 2    \* longest iteration of resolve_citations' result

BoundedSeq(S, n) == UNION {[1..k -> S] : k \in 0..n}

\* ----------------------------------------------------------- Python values
\* None is the empty tuple, any other value v is the 1-tuple <<v>>; an
\* object json cannot encode is a 2-tuple naming its type.
PyNone == <<>>
Py(v) == <<v>>
PyObject(t) == <<"object", t>>
Truthy(v) == v # PyNone /\ v # Py("")
JsonSerializable(v) == Len(v) <= 1

\* ------------------------------------------------------------------ stdin
Chars == {" ", "x"}
Whitespace == {" "}
Texts == BoundedSeq(Chars, MaxText)

RECURSIVE LStrip(_)
LStrip(t) == IF t # <<>> /\ Head(t) \in Whitespace THEN LStrip(Tail(t)) ELSE t

RECURSIVE RStrip(_)
RStrip(t) ==
    IF t # <<>> /\ t[Len(t)] \in Whitespace
    THEN RStrip(SubSeq(t, 1, Len(t) - 1))
    ELSE t

Strip(t) == RStrip(LStrip(t))

IsBlankNoStrip(t) == t = <<>>
\* `not text.strip()`
IsBlank(t) == Strip(t) = <<>>

\* clean_text(text, ["html", "inline_whitespace", "underscores"]): over this
\* alphabet only the inline_whitespace cleaner acts, collapsing each run of
\* whitespace into one space.
RECURSIVE clean_text(_)
clean_text(t) ==
    IF Len(t) <= 1 THEN t
    ELSE IF t[1] \in Whitespace /\ t[2] \in Whitespace
         THEN clean_text(Tail(t))
         ELSE <<t[1]>> \o clean_text(Tail(t))

\* Messages of the exceptions the collaborator raises (str(e)); an exception
\* raised without arguments has the empty string form.
ExcMsgs == {"", "invalid input"}

\* ------------------------------------------------- collaborator's objects
\* A citation object: its class, its string form str(cite), and the three
\* attributes the script reads.
\*   groups:   kind "noattr" (no such attribute), "none" (None) or "dict"
\*             (a dict d: key -> value)
\*   metadata: kind "none" (None or no such attribute), "obj" (an object
\*             whose attributes are DOMAIN fields) or "dict" (a dict)
\*   span:     kind "noattr" (no span accessor), "ok" (span() returns val)
\*             or "raises" (span() raises an exception with message msg)
Classes ==
    {"FullCaseCitation", "ShortCaseCitation", "IdCitation", "IbidCitation",
     "SupraCitation", "FullLawCitation", "FullJournalCitation"}

FullStr == "410 U.S. 113"
IdStr == "Id. at 120"

NoDict == [k \in {} |-> PyNone]
GroupsNoAttr == [kind |-> "noattr", d |-> NoDict]
GroupsNone == [kind |-> "none", d |-> NoDict]
GroupsDict(d) == [kind |-> "dict", d |-> d]
FullGroups == GroupsDict([volume |-> Py("410"), reporter |-> Py("U.S."), page |-> Py("113")])

MetaNone == [kind |-> "none", fields |-> NoDict]
MetaObj(f) == [kind |-> "obj", fields |-> f]
MetaDict(f) == [kind |-> "dict", fields |-> f]
Parties(p, d) ==
    [pin_cite |-> PyNone, year |-> Py("1973"), court |-> Py("scotus"),
     plaintiff |-> p, defendant |-> d]

SpanNoAttr == [kind |-> "noattr", val |-> <<0, 0>>, msg |-> ""]
SpanOk(s, e) == [kind |-> "ok", val |-> <<s, e>>, msg |-> ""]
SpanRaises(m) == [kind |-> "raises", val |-> <<0, 0>>, msg |-> m]

Cite(c, s, g, m, sp) == [cls |-> c, str |-> s, groups |-> g, metadata |-> m, span |-> sp]

FullCite ==
    Cite("FullCaseCitation", FullStr, FullGroups,
         MetaObj(Parties(Py("Roe"), Py("Wade"))), SpanOk(14, 26))
IdCite ==
    Cite("IdCitation", IdStr, GroupsDict(NoDict),
         MetaObj(Parties(PyNone, PyNone)), SpanOk(36, 39))
BadSpanCite ==
    Cite("ShortCaseCitation", IdStr, FullGroups, MetaNone, SpanRaises("bad span"))

\* The citations that occur at any position of an extraction result.
CorePool == {FullCite, IdCite, BadSpanCite}

PartyVals(name) == {PyNone, Py(""), Py(name)}

\* Citations varying one attribute at a time over all of its shapes.
ByClass == {[FullCite EXCEPT !.cls = c] : c \in Classes}
ByParties ==
    {[FullCite EXCEPT !.metadata = MetaObj(Parties(p, d))] :
        p \in PartyVals("Roe"), d \in PartyVals("Wade")}
ByMetadata ==
    {[FullCite EXCEPT !.metadata = m] :
        m \in {MetaNone,
               MetaDict([plaintiff |-> Py("Roe"), defendant |-> Py("Wade")]),
               MetaDict([plaintiff |-> Py("Roe")]),
               MetaObj([year |-> Py("1973")]),
               MetaObj([defendant |-> Py("Wade"), pin_cite |-> Py("120")])}}
ByGroups ==
    {[FullCite EXCEPT !.groups = g] :
        g \in {GroupsNoAttr, GroupsNone,
               GroupsDict([volume |-> Py("410")]),
               GroupsDict([volume |-> PyObject("Match"), page |-> Py("113")])}}
BySpan ==
    {[FullCite EXCEPT !.span = sp] :
        sp \in {SpanNoAttr, SpanOk(0, 0), SpanOk(3, 15)}
               \cup {SpanRaises(m) : m \in ExcMsgs}}

Pool == CorePool \cup ByClass \cup ByParties \cup ByMetadata \cup ByGroups \cup BySpan

\* What get_citations may return: any list of core citations, or one
\* citation of any shape.
CiteLists == BoundedSeq(CorePool, MaxCites) \cup {<<c>> : c \in Pool}

\* An element of the iteration over resolve_citations' result: its string
\* form and its antecedent attribute: kind "noattr", "none" (None, falsy) or
\* "cite" (a citation whose string form is str).
NoAntecedent == [kind |-> "noattr", str |-> ""]
NoneAntecedent == [kind |-> "none", str |-> ""]
Antecedent(s) == [kind |-> "cite", str |-> s]

StrsOf(cs) == {cs[j].str : j \in 1..Len(cs)}

ResolvedItems(cs) ==
    {[str |-> s, antecedent |-> a] :
        s \in StrsOf(cs),
        a \in {NoAntecedent, NoneAntecedent} \cup {Antecedent(t) : t \in StrsOf(cs)}}

ResolvedLists(cs) == BoundedSeq(ResolvedItems(cs), MaxResolved)

\* ------------------------------------------------------- get_citation_type
get_citation_type_ibid_as_id(cite) ==
    CASE cite.cls = "FullCaseCitation" -> "FULL_CASE"
      [] cite.cls = "ShortCaseCitation" -> "SHORT_CASE"
      [] cite.cls = "IdCitation" -> "ID"
      [] cite.cls = "IbidCitation" -> "ID"
      [] cite.cls = "SupraCitation" -> "SUPRA"
      [] cite.cls = "FullLawCitation" -> "STATUTE"
      [] OTHER -> "UNKNOWN"

get_citation_type(cite) ==
    CASE cite.cls = "FullCaseCitation" -> "FULL_CASE"
      [] cite.cls = "ShortCaseCitation" -> "SHORT_CASE"
      [] cite.cls = "IdCitation" -> "ID"
      [] cite.cls = "IbidCitation" -> "IBID"
      [] cite.cls = "SupraCitation" -> "SUPRA"
      [] cite.cls = "FullLawCitation" -> "STATUTE"
      [] OTHER -> "UNKNOWN"

\* ----------------------------------------------------------------- safe_get
\* hasattr/getattr on an object, .get on a dict, the default (None) otherwise.
safe_get(obj, attr) ==
    IF obj.kind = "obj" /\ attr \in DOMAIN obj.fields THEN obj.fields[attr]
    ELSE IF obj.kind = "dict"
         THEN IF attr \in DOMAIN obj.fields THEN obj.fields[attr] ELSE PyNone
         ELSE PyNone

\* groups = getattr(cite, "groups", {}) or {}
GroupsOf(cite) == IF cite.groups.kind = "dict" THEN cite.groups.d ELSE NoDict

\* groups.get(key)
DictGet(d, key) == IF key \in DOMAIN d THEN d[key] ELSE PyNone

\* ------------------------------------------------------------ antecedent map
Put(m, k, v) == [x \in DOMAIN m \cup {k} |-> IF x = k THEN v ELSE m[x]]

\* `if hasattr(cite, "antecedent") and cite.antecedent:`
HasAntecedent(item) == item.antecedent.kind = "cite"

\* The loop over `resolved` from element j on, m being the map so far: a
\* later element overwrites an earlier one with the same key.
RECURSIVE BuildMapFirstWins(_, _, _)
BuildMapFirstWins(res, j, m) ==
    IF j > Len(res) THEN m
    ELSE BuildMapFirstWins(res, j + 1,
            IF HasAntecedent(res[j]) /\ res[j].str \notin DOMAIN m
            THEN Put(m, res[j].str, res[j].antecedent.str)
            ELSE m)

RECURSIVE BuildMap(_, _, _)
BuildMap(res, j, m) ==
    IF j > Len(res) THEN m
    ELSE BuildMap(res, j + 1,
            IF HasAntecedent(res[j])
            THEN Put(m, res[j].str, res[j].antecedent.str)
            ELSE m)

AntecedentMapFirstWins(res) == BuildMapFirstWins(res, 1, NoDict)

AntecedentMap(res) == BuildMap(res, 1, NoDict)

\* antecedent_map.get(key)
MapGet(m, key) == IF key \in DOMAIN m THEN Py(m[key]) ELSE PyNone

\* ------------------------------------------------------------ citation_obj
\* str(v) as an f-string renders it
PyStr(v) == IF v = PyNone THEN "None" ELSE v[1]

CaseNameEither(plaintiff, defendant) ==
    IF Truthy(plaintiff) \/ Truthy(defendant)
    THEN Py(PyStr(plaintiff) \o " v. " \o PyStr(defendant))
    ELSE PyNone

\* "case_name": None, then set `if plaintiff and defendant`
CaseName(plaintiff, defendant) ==
    IF Truthy(plaintiff) /\ Truthy(defendant)
    THEN Py(PyStr(plaintiff) \o " v. " \o PyStr(defendant))
    ELSE PyNone

SpanFieldSwapped(cite) ==
    IF cite.span.kind = "noattr" THEN PyNone
    ELSE Py(<<cite.span.val[2], cite.span.val[1]>>)

\* [cite.span()[0], cite.span()[1]] if hasattr(cite, "span") else None
SpanField(cite) ==
    IF cite.span.kind = "noattr" THEN PyNone
    ELSE Py(<<cite.span.val[1], cite.span.val[2]>>)

\* The record built for the citation at 0-based position i.
CitationObj(i, cite, amap) ==
    LET groups == GroupsOf(cite)
        metadata == cite.metadata
        plaintiff == safe_get(metadata, "plaintiff")
        defendant == safe_get(metadata, "defendant")
    IN  [index |-> i,
         raw |-> cite.str,
         citation_type |-> get_citation_type(cite),
         volume |-> DictGet(groups, "volume"),
         reporter |-> DictGet(groups, "reporter"),
         page |-> DictGet(groups, "page"),
         pinpoint |-> safe_get(metadata, "pin_cite"),
         year |-> safe_get(metadata, "year"),
         court |-> safe_get(metadata, "court"),
         plaintiff |-> plaintiff,
         defendant |-> defendant,
         case_name |-> CaseName(plaintiff, defendant),
         span |-> SpanField(cite),
         antecedent |-> MapGet(amap, cite.str)]

RecordFields ==
    {"index", "raw", "citation_type", "volume", "reporter", "page", "pinpoint",
     "year", "court", "plaintiff", "defendant", "case_name", "span", "antecedent"}

\* json.dumps raises TypeError on a value it cannot encode.
RecordSerializable(r) ==
    \A f \in RecordFields \ {"index", "raw", "citation_type"} : JsonSerializable(r[f])

\* ------------------------------------------------------------- documents
\* A JSON object is the list of its <<key, value>> pairs in insertion order.
Has(doc, key) == \E j \in 1..Len(doc) : doc[j][1] = key
Get(doc, key) == doc[CHOOSE j \in 1..Len(doc) : doc[j][1] = key][2]

NotInstalledMsg == "eyecite not installed. Run: pip install eyecite"
NotInstalledDoc == << <<"error", NotInstalledMsg>>, <<"citations", <<>> >> >>
EmptyDoc == << <<"citations", <<>> >>, <<"count", 0>> >>

SuccessDocLastIndex(recs) ==
    << <<"citations", recs>>,
       <<"count", IF recs = <<>> THEN 0 ELSE recs[Len(recs)].index>> >>

SuccessDoc(recs) == << <<"citations", recs>>, <<"count", Len(recs)>> >>

ErrorDoc(msg) == << <<"error", msg>>, <<"citations", <<>> >>, <<"count", 0>> >>

\* print(json.dumps(doc)) and print(json.dumps(doc, indent=2)): the line
\* written, as the document and the indent it is laid out with.
Compact(doc) == [doc |-> doc, indent |-> PyNone]
Indented(doc) == [doc |-> doc, indent |-> Py(2)]

\* ------------------------------------------------------------------ state
VARIABLES
    installed,        \* environment: the eyecite imports succeed
    stdin,            \* environment: the text on standard input
    pc,               \* the statement the process is at
    text,             \* main: text
    cleaned,          \* extract_citations: cleaned
    citations,        \* extract_citations: citations
    resolved,         \* extract_citations: resolved, as iterated
    antecedent_map,   \* extract_citations: antecedent_map
    results,          \* extract_citations: results
    exc,              \* the exception in flight: Py(str(e)), or PyNone
    stdout,           \* the lines printed so far
    exit_code,        \* Py(code) once the process has exited, PyNone before
    events            \* history: the calls made so far, with their arguments

vars ==
    <<installed, stdin, pc, text, cleaned, citations, resolved, antecedent_map,
      results, exc, stdout, exit_code, events>>

locals == <<text, cleaned, citations, resolved, antecedent_map, results>>

Event(op, arg) == [op |-> op, arg |-> arg]
Log(op, arg) == events' = Append(events, Event(op, arg))
Log2(op1, arg1, op2, arg2) ==
    events' = events \o <<Event(op1, arg1), Event(op2, arg2)>>

Init ==
    /\ installed \in BOOLEAN
    /\ stdin \in Texts
    /\ pc = "import"
    /\ text = <<>>
    /\ cleaned = <<>>
    /\ citations = <<>>
    /\ resolved = <<>>
    /\ antecedent_map = NoDict
    /\ results = <<>>
    /\ exc = PyNone
    /\ stdout = <<>>
    /\ exit_code = PyNone
    /\ events = <<>>

\* print(line); the process ends with the given exit code
PrintAndExit(line, code) ==
    /\ stdout' = Append(stdout, line)
    /\ exit_code' = Py(code)
    /\ pc' = "exited"

\* raise inside the try block of main
Raise(msg) ==
    /\ exc' = Py(msg)
    /\ pc' = "except"

\* ---------------------------------------------------------- import guard
ImportOk ==
    /\ pc = "import"
    /\ installed
    /\ pc' = "read"
    /\ Log("import", <<>>)
    /\ UNCHANGED <<installed, stdin, locals, exc, stdout, exit_code>>

\* except ImportError: print the fixed document, sys.exit(1)
ImportError ==
    /\ pc = "import"
    /\ ~installed
    /\ PrintAndExit(Compact(NotInstalledDoc), 1)
    /\ Log2("import", <<>>, "write", <<>>)
    /\ UNCHANGED <<installed, stdin, locals, exc>>

\* ------------------------------------------------------------------- main
\* text = sys.stdin.read()
ReadStdin ==
    /\ pc = "read"
    /\ text' = stdin
    /\ pc' = "check"
    /\ Log("read", <<stdin>>)
    /\ UNCHANGED <<installed, stdin, cleaned, citations, resolved, antecedent_map,
                   results, exc, stdout, exit_code>>

EmptyInputExitsOne ==
    /\ pc = "check"
    /\ IsBlank(text)
    /\ PrintAndExit(Compact(EmptyDoc), 1)
    /\ Log("write", <<>>)
    /\ UNCHANGED <<installed, stdin, locals, exc>>

\* if not text.strip(): print the empty document; return
EmptyInput ==
    /\ pc = "check"
    /\ IsBlank(text)
    /\ PrintAndExit(Compact(EmptyDoc), 0)
    /\ Log("write", <<>>)
    /\ UNCHANGED <<installed, stdin, locals, exc>>

\* ------------------------------------------------------ extract_citations
\* Step 1: cleaned = clean_text(text, [...])
CleanText ==
    /\ pc = "check"
    /\ ~IsBlank(text)
    /\ cleaned' = clean_text(text)
    /\ pc' = "extract"
    /\ Log("clean", <<text>>)
    /\ UNCHANGED <<installed, stdin, text, citations, resolved, antecedent_map,
                   results, exc, stdout, exit_code>>

CleanTextRaises ==
    /\ pc = "check"
    /\ ~IsBlank(text)
    /\ \E m \in ExcMsgs : Raise(m)
    /\ Log("clean", <<text>>)
    /\ UNCHANGED <<installed, stdin, locals, stdout, exit_code>>

GetCitationsOfText ==
    /\ pc = "extract"
    /\ \E cs \in CiteLists : citations' = cs
    /\ pc' = "resolve"
    /\ Log("extract", <<text>>)
    /\ UNCHANGED <<installed, stdin, text, cleaned, resolved, antecedent_map,
                   results, exc, stdout, exit_code>>

\* Step 2: citations = get_citations(cleaned)
GetCitations ==
    /\ pc = "extract"
    /\ \E cs \in CiteLists : citations' = cs
    /\ pc' = "resolve"
    /\ Log("extract", <<cleaned>>)
    /\ UNCHANGED <<installed, stdin, text, cleaned, resolved, antecedent_map,
                   results, exc, stdout, exit_code>>

GetCitationsRaises ==
    /\ pc = "extract"
    /\ \E m \in ExcMsgs : Raise(m)
    /\ Log("extract", <<cleaned>>)
    /\ UNCHANGED <<installed, stdin, locals, stdout, exit_code>>

\* Step 3: resolved = resolve_citations(citations)
ResolveCitations ==
    /\ pc = "resolve"
    /\ \E rs \in ResolvedLists(citations) : resolved' = rs
    /\ pc' = "map"
    /\ Log("resolve", <<citations>>)
    /\ UNCHANGED <<installed, stdin, text, cleaned, citations, antecedent_map,
                   results, exc, stdout, exit_code>>

ResolveCitationsRaises ==
    /\ pc = "resolve"
    /\ \E m \in ExcMsgs : Raise(m)
    /\ Log("resolve", <<citations>>)
    /\ UNCHANGED <<installed, stdin, locals, stdout, exit_code>>

\* antecedent_map = {}; for cite in resolved: ...
BuildAntecedentMap ==
    /\ pc = "map"
    /\ antecedent_map' = AntecedentMap(resolved)
    /\ pc' = "loop"
    /\ UNCHANGED <<installed, stdin, text, cleaned, citations, resolved, results,
                   exc, stdout, exit_code, events>>

BuildRecordOneBased ==
    /\ pc = "loop"
    /\ Len(results) < Len(citations)
    /\ LET i == Len(results)
           cite == citations[i + 1]
       IN  /\ cite.span.kind # "raises"
           /\ results' = Append(results, CitationObj(i + 1, cite, antecedent_map))
           /\ Log("build", <<i>>)
    /\ UNCHANGED <<installed, stdin, pc, text, cleaned, citations, resolved,
                   antecedent_map, exc, stdout, exit_code>>

\* Step 4, one iteration of `for i, cite in enumerate(citations)`
BuildRecord ==
    /\ pc = "loop"
    /\ Len(results) < Len(citations)
    /\ LET i == Len(results)
           cite == citations[i + 1]
       IN  /\ cite.span.kind # "raises"
           /\ results' = Append(results, CitationObj(i, cite, antecedent_map))
           /\ Log("build", <<i>>)
    /\ UNCHANGED <<installed, stdin, pc, text, cleaned, citations, resolved,
                   antecedent_map, exc, stdout, exit_code>>

\* the iteration in which cite.span() raises
BuildRecordRaises ==
    /\ pc = "loop"
    /\ Len(results) < Len(citations)
    /\ LET i == Len(results)
           cite == citations[i + 1]
       IN  /\ cite.span.kind = "raises"
           /\ Raise(cite.span.msg)
           /\ Log("build", <<i>>)
    /\ UNCHANGED <<installed, stdin, locals, stdout, exit_code>>

\* main: output = {...}; print(json.dumps(output, indent=2)); exit code 0
PrintSuccess ==
    /\ pc = "loop"
    /\ Len(results) = Len(citations)
    /\ \A j \in 1..Len(results) : RecordSerializable(results[j])
    /\ PrintAndExit(Indented(SuccessDoc(results)), 0)
    /\ Log("write", <<>>)
    /\ UNCHANGED <<installed, stdin, locals, exc>>

\* json.dumps raises TypeError before anything is printed
DumpsRaises ==
    /\ pc = "loop"
    /\ Len(results) = Len(citations)
    /\ \E j \in 1..Len(results) : ~RecordSerializable(results[j])
    /\ Raise("Object of type Match is not JSON serializable")
    /\ Log("dumps", <<>>)
    /\ UNCHANGED <<installed, stdin, locals, stdout, exit_code>>

ExceptHandlerPartial ==
    /\ pc = "except"
    /\ PrintAndExit(
         Compact(<< <<"error", exc[1]>>, <<"citations", results>>,
                    <<"count", Len(results)>> >>), 1)
    /\ Log("write", <<>>)
    /\ UNCHANGED <<installed, stdin, locals, exc>>

\* except Exception as e: print the error document; sys.exit(1)
ExceptHandler ==
    /\ pc = "except"
    /\ PrintAndExit(Compact(ErrorDoc(exc[1])), 1)
    /\ Log("write", <<>>)
    /\ UNCHANGED <<installed, stdin, locals, exc>>

Next ==
    \/ ImportOk
    \/ ImportError
    \/ ReadStdin
    \/ EmptyInput
    \/ CleanText
    \/ CleanTextRaises
    \/ GetCitations
    \/ GetCitationsRaises
    \/ ResolveCitations
    \/ ResolveCitationsRaises
    \/ BuildAntecedentMap
    \/ BuildRecord
    \/ BuildRecordRaises
    \/ PrintSuccess
    \/ DumpsRaises
    \/ ExceptHandler

Spec == Init /\ [][Next]_vars

\* =================================================================== claims
Exited == pc = "exited"
AllWhitespace(t) == \A j \in 1..Len(t) : t[j] \in Whitespace
Happened(op) == \E j \in 1..Len(events) : events[j].op = op
\* the document printed, once exactly one line is on stdout
Printed == stdout[1].doc
\* the records of the printed document
OutputRecords == IF Len(stdout) = 1 THEN Get(Printed, "citations") ELSE <<>>
Successful == Exited /\ exit_code = Py(0) /\ Happened("resolve")

\* C1: nothing is printed before the process exits, and when it has exited
\* exactly one document is on stdout; the exit code is 1 if the dependency is
\* missing or an exception was raised during extraction and 0 otherwise, and
\* it is non-zero exactly when the document has an `error` field.
C1_ExitContract ==
    /\ Len(stdout) <= 1
    /\ Exited <=> Len(stdout) = 1
    /\ Exited <=> exit_code # PyNone
    /\ Exited =>
        /\ exit_code = IF ~installed \/ exc # PyNone THEN Py(1) ELSE Py(0)
        /\ exit_code # Py(0) <=> Has(Printed, "error")

C1_Witness ==
    /\ Exited
    /\ exc # PyNone
    /\ results # <<>>
    /\ exit_code = Py(1)
    /\ Has(Printed, "error")

\* C2 as stated: when a collaborator step or the record construction raised,
\* the document printed has a NON-EMPTY `error` equal to the exception's
\* string form, empty `citations` and `count` 0, and the exit code is 1.
C2_Original ==
    (Exited /\ exc # PyNone) =>
        /\ Printed =
             << <<"error", exc[1]>>, <<"citations", <<>> >>, <<"count", 0>> >>
        /\ Get(Printed, "error") # ""
        /\ exit_code = Py(1)

\* C2 amended: when a collaborator step or the record construction raised,
\* the document printed has an `error` equal to the exception's string form
\* (empty when the exception carries no message), empty `citations` and
\* `count` 0 whatever records were built before, and the exit code is 1.
C2_ErrorDocument ==
    (Exited /\ exc # PyNone) =>
        /\ stdout =
             <<Compact(<< <<"error", exc[1]>>, <<"citations", <<>> >>,
                          <<"count", 0>> >>)>>
        /\ exit_code = Py(1)

C2_Witness ==
    /\ Exited
    /\ exc = Py("bad span")
    /\ Len(results) = 1
    /\ Get(Printed, "citations") = <<>>

C4_Original ==
    Exited =>
        /\ Has(Printed, "count")
        /\ Get(Printed, "count") = Len(Get(Printed, "citations"))

\* C4 amended: every printed document but the dependency-missing one has a
\* `count` equal to the length of its `citations`; the dependency-missing
\* document has `citations` [] and no `count` field.
C4_CountMatches ==
    Exited =>
        IF installed
        THEN /\ Has(Printed, "count")
             /\ Get(Printed, "count") = Len(Get(Printed, "citations"))
        ELSE /\ ~Has(Printed, "count")
             /\ Get(Printed, "citations") = <<>>

C4_Witness ==
    /\ Successful
    /\ Get(Printed, "count") = 2
    /\ Len(Get(Printed, "citations")) = 2

\* C5: in every successful output there is one record per extracted
\* citation, the record at 0-based position k has index k and raw equal to
\* the string form of the k-th extracted citation, whatever the order and
\* grouping of the resolution pass's result.
C5_IndexAndRaw ==
    Successful =>
        /\ Len(OutputRecords) = Len(citations)
        /\ \A k \in 0..(Len(citations) - 1) :
            /\ OutputRecords[k + 1].index = k
            /\ OutputRecords[k + 1].raw = citations[k + 1].str

C5_Witness ==
    /\ Successful
    /\ Len(OutputRecords) = 2
    /\ OutputRecords[1].raw # OutputRecords[2].raw
    /\ Len(resolved) = 2
    /\ resolved[1].str = OutputRecords[2].raw
    /\ resolved[2].str = OutputRecords[1].raw

\* C6 as stated: case_name is non-null iff plaintiff and defendant are both
\* non-null, and then equals plaintiff, " v. ", defendant.
C6_Original ==
    \A k \in 1..Len(OutputRecords) :
        LET r == OutputRecords[k]
        IN  /\ r.case_name # PyNone <=> (r.plaintiff # PyNone /\ r.defendant # PyNone)
            /\ r.case_name # PyNone =>
                 r.case_name = Py(r.plaintiff[1] \o " v. " \o r.defendant[1])

\* C6 amended: case_name is non-null iff plaintiff and defendant are both
\* non-null and non-empty, and then equals plaintiff, " v. ", defendant.
C6_CaseName ==
    \A k \in 1..Len(OutputRecords) :
        LET r == OutputRecords[k]
            present(v) == v # PyNone /\ v # Py("")
        IN  /\ r.case_name # PyNone <=> (present(r.plaintiff) /\ present(r.defendant))
            /\ r.case_name # PyNone =>
                 r.case_name = Py(r.plaintiff[1] \o " v. " \o r.defendant[1])

C6_Witness ==
    /\ Successful
    /\ Len(OutputRecords) = 1
    /\ OutputRecords[1].plaintiff = Py("")
    /\ OutputRecords[1].defendant = Py("Wade")
    /\ OutputRecords[1].case_name = PyNone

\* C7: every output record's citation_type is one of the seven enumerated
\* strings: the one of its citation's class for the six known classes,
\* UNKNOWN for any other class.
C7_CitationType ==
    \A k \in 1..Len(OutputRecords) :
        LET t == OutputRecords[k].citation_type
            c == citations[k].cls
        IN  /\ t \in {"FULL_CASE", "SHORT_CASE", "ID", "IBID", "SUPRA", "STATUTE",
                      "UNKNOWN"}
            /\ c = "FullCaseCitation" <=> t = "FULL_CASE"
            /\ c = "ShortCaseCitation" <=> t = "SHORT_CASE"
            /\ c = "IdCitation" <=> t = "ID"
            /\ c = "IbidCitation" <=> t = "IBID"
            /\ c = "SupraCitation" <=> t = "SUPRA"
            /\ c = "FullLawCitation" <=> t = "STATUTE"

C7_Witness ==
    /\ Successful
    /\ Len(OutputRecords) = 1
    /\ citations[1].cls = "FullJournalCitation"
    /\ OutputRecords[1].citation_type = "UNKNOWN"

\* the positions of `resolved` whose element has string form s and a
\* non-empty antecedent
Resolving(s) ==
    {j \in 1..Len(resolved) :
        resolved[j].str = s /\ resolved[j].antecedent.kind = "cite"}
Last(S) == CHOOSE j \in S : \A i \in S : i <= j

\* C8: an output record's antecedent is non-null exactly when some element of
\* the resolution result has the record's raw as string form and a non-empty
\* antecedent, and is then the string form of the antecedent of the last such
\* element; so a record whose (last) resolving element points at an earlier
\* citation with another string form has that citation's raw as antecedent.
C8_Antecedent ==
    \A k \in 1..Len(OutputRecords) :
        LET r == OutputRecords[k]
            S == Resolving(r.raw)
        IN  /\ r.antecedent # PyNone <=> S # {}
            /\ S # {} =>
                /\ r.antecedent = Py(resolved[Last(S)].antecedent.str)
                /\ \A i \in 1..(k - 1) :
                     (/\ citations[i].str # citations[k].str
                      /\ resolved[Last(S)].antecedent.str = citations[i].str)
                     => r.antecedent = Py(OutputRecords[i].raw)

C8_Witness ==
    /\ Successful
    /\ Len(OutputRecords) = 2
    /\ OutputRecords[1].raw # OutputRecords[2].raw
    /\ OutputRecords[2].antecedent = Py(OutputRecords[1].raw)
    /\ OutputRecords[1].antecedent = PyNone
    /\ Len(resolved) = 2
    /\ resolved[1].str = resolved[2].str
    /\ resolved[1].antecedent.kind = "cite"
    /\ resolved[1].antecedent # resolved[2].antecedent

\* C9: an output record's span is null when its citation has no span
\* accessor, and otherwise the pair [start, end] of the citation's span,
\* with start <= end.
C9_Span ==
    \A k \in 1..Len(OutputRecords) :
        LET r == OutputRecords[k]
            c == citations[k]
        IN  IF c.span.kind = "noattr"
            THEN r.span = PyNone
            ELSE /\ r.span # PyNone
                 /\ Len(r.span[1]) = 2
                 /\ r.span[1][1] = c.span.val[1]
                 /\ r.span[1][2] = c.span.val[2]
                 /\ r.span[1][1] <= r.span[1][2]

C9_Witness ==
    /\ Successful
    /\ Len(OutputRecords) = 2
    /\ OutputRecords[1].span = Py(<<14, 26>>)
    /\ OutputRecords[2].span = Py(<<36, 39>>)

Rank(op) ==
    CASE op = "import" -> 1
      [] op = "read" -> 2
      [] op = "clean" -> 3
      [] op = "extract" -> 4
      [] op = "resolve" -> 5
      [] op = "build" -> 6
      [] op = "dumps" -> 7
      [] op = "write" -> 8
Builds == {j \in 1..Len(events) : events[j].op = "build"}
ArgOf(op) == events[CHOOSE j \in 1..Len(events) : events[j].op = op].arg

\* C10: the calls of a run occur in the order import, read, clean, extract,
\* resolve, record constructions, write; each but the record constructions
\* at most once and none without its predecessor; stdin is read whole, clean
\* gets the text read, extract the cleaned text and resolve the extracted
\* citations; the write is the last event and the only one that prints, and
\* a successful one follows the construction of every record; when the
\* dependency is missing neither stdin is read nor a collaborator step run.
C10_EventOrder ==
    /\ \A a, b \in 1..Len(events) :
         a < b =>
            \/ Rank(events[a].op) < Rank(events[b].op)
            \/ events[a].op = "build" /\ events[b].op = "build"
    /\ events # <<>> => events[1].op = "import"
    /\ Happened("clean") => Happened("read")
    /\ Happened("extract") => Happened("clean")
    /\ Happened("resolve") => Happened("extract")
    /\ Happened("build") => Happened("resolve")
    /\ Happened("dumps") => Happened("resolve")
    /\ Happened("read") => ArgOf("read") = <<stdin>> /\ text = stdin
    /\ Happened("clean") => ArgOf("clean") = ArgOf("read")
    /\ Happened("extract") => ArgOf("extract") = <<cleaned>>
    /\ Happened("resolve") => ArgOf("resolve") = <<citations>>
    /\ \A j \in Builds :
         events[j].arg = <<Cardinality({i \in Builds : i < j})>>
    /\ Len(stdout) = Cardinality({j \in 1..Len(events) : events[j].op = "write"})
    /\ (Happened("write") /\ Happened("resolve") /\ exc = PyNone) =>
         /\ Cardinality(Builds) = Len(citations)
         /\ Len(results) = Len(citations)
    /\ ~installed =>
         \A j \in 1..Len(events) : events[j].op \in {"import", "write"}

C10_Witness ==
    /\ Successful
    /\ Len(results) = 2
    /\ cleaned # text
    /\ Len(events) = 8
====
